---- MODULE Spec2Model ----
(***************************************************************************)
(* A model of augr's patch-based merge engine: the Patch instruction sets  *)
(* (core/src/store/patch.rs), the per-event two-phase sets and frontier    *)
(* (core/src/repository/event.rs) and the PatchedTimesheet orchestrator    *)
(* with apply_patch / verify_patch / flatten                               *)
(* (core/src/repository/timesheet.rs).                                     *)
(***************************************************************************)
EXTENDS Integers, Sequences, FiniteSets, TLC

\* ------------------------------------------------------------------ bounds
\* PatchRef values (Uuid) are 1..NumPatchRefs.
NumPatchRefs == 3
\* EventRef values (String, ordered as the BTreeMap orders them) are 1..NumEvents.
NumEvents == 3
\* DateTime<Utc> values are 1..NumTimes.
NumTimes == 2
\* Tag values are 1..NumTags.
NumTags == 1
\* Largest number of instructions carried by one patch.
MaxInstr == 2
\* Largest `parents` set carried by one instruction.
MaxParents == 1
\* Largest number of stored patches replayed before a recorded call.
MaxReplay == 1
\* Largest number of mutator calls made on the stand-alone PatchedEvent.
MaxCalls == 4

PatchRefs == 1..NumPatchRefs
EventRefs == 1..NumEvents
Times == 1..NumTimes
Tags == 1..NumTags

\* ------------------------------------------------------------- PatchedEvent
PatchedEvent_new ==
    [starts_added |-> {}, starts_removed |-> {}, tags_added |-> {},
     tags_removed |-> {}, latest_patches |-> {}]

\* remove_patch_from_latest that leaves the frontier as it is.
remove_patch_from_latest_keeps(ev, patch) == ev

remove_patch_from_latest(ev, patch) ==
    [ev EXCEPT !.latest_patches = @ \ {patch}]

\* add_patch_to_latest that keeps the new patch as the whole frontier.
add_patch_to_latest_replaces(ev, patch) ==
    [ev EXCEPT !.latest_patches = {patch}]

\* add_patch_to_latest that leaves the frontier as it is.
add_patch_to_latest_skips(ev, patch) == ev

add_patch_to_latest(ev, patch) ==
    [ev EXCEPT !.latest_patches = @ \cup {patch}]

\* add_start that assigns the set where the method inserts into it.
add_start_overwrites(ev, patch, datetime) ==
    [ev EXCEPT !.starts_added = {<<patch, datetime>>}]

add_start(ev, patch, datetime) ==
    [ev EXCEPT !.starts_added = @ \cup {<<patch, datetime>>}]

\* remove_start as a slip of the set it writes to would have it.
remove_start_into_added(ev, patch, datetime) ==
    [ev EXCEPT !.starts_added = @ \cup {<<patch, datetime>>}]

\* remove_start that deletes the pair from starts_added and leaves no tombstone.
remove_start_deletes(ev, patch, datetime) ==
    [ev EXCEPT !.starts_added = @ \ {<<patch, datetime>>}]

remove_start(ev, patch, datetime) ==
    [ev EXCEPT !.starts_removed = @ \cup {<<patch, datetime>>}]

\* starts() with a removal hiding every added pair that carries its time.
starts_by_value(ev) ==
    {x \in ev.starts_added : \A y \in ev.starts_removed : y[2] # x[2]}

starts(ev) == ev.starts_added \ ev.starts_removed

add_tag(ev, patch, tag) ==
    [ev EXCEPT !.tags_added = @ \cup {<<patch, tag>>}]

\* remove_tag that deletes the pair from tags_added and leaves no tombstone.
remove_tag_deletes(ev, patch, tag) ==
    [ev EXCEPT !.tags_added = @ \ {<<patch, tag>>}]

remove_tag(ev, patch, tag) ==
    [ev EXCEPT !.tags_removed = @ \cup {<<patch, tag>>}]

tags(ev) == ev.tags_added \ ev.tags_removed

\* Event::new(start, tags): the resolved event, its tags collected into a set.
Event_new(start, tagset) == [start |-> start, tags |-> tagset]

\* PatchedEvent::flatten with the bound on the number of starts off by one.
PatchedEvent_flatten_two_starts(ev) ==
    LET s == starts(ev) IN
    IF ~(Cardinality(s) < 3)
    THEN [kind |-> "Err", source |-> "MultipleStartTimes"]
    ELSE IF s = {}
    THEN [kind |-> "Err", source |-> "NoStartTimes"]
    ELSE [kind |-> "Ok",
          event |-> Event_new((CHOOSE x \in s : TRUE)[2],
                              {x[2] : x \in (ev.tags_added \ ev.tags_removed)})]

\* PatchedEvent::flatten that settles several starts by taking the first.
PatchedEvent_flatten_picks_one(ev) ==
    LET s == starts(ev) IN
    IF s = {}
    THEN [kind |-> "Err", source |-> "NoStartTimes"]
    ELSE [kind |-> "Ok",
          event |-> Event_new((CHOOSE x \in s : \A y \in s : x[1] <= y[1] /\ (x[1] = y[1] => x[2] <= y[2]))[2],
                              {x[2] : x \in (ev.tags_added \ ev.tags_removed)})]

\* Result<Event, Error>: kind "Ok" carries event, kind "Err" carries source.
\* PatchedEvent::flatten counting the distinct visible times, not the pairs.
PatchedEvent_flatten_by_time(ev) ==
    LET s == {x[2] : x \in starts(ev)} IN
    IF ~(Cardinality(s) < 2)
    THEN [kind |-> "Err", source |-> "MultipleStartTimes"]
    ELSE IF s = {}
    THEN [kind |-> "Err", source |-> "NoStartTimes"]
    ELSE [kind |-> "Ok",
          event |-> Event_new(CHOOSE t \in s : TRUE,
                              {x[2] : x \in (ev.tags_added \ ev.tags_removed)})]

PatchedEvent_flatten(ev) ==
    LET s == starts(ev) IN
    IF ~(Cardinality(s) < 2)
    THEN [kind |-> "Err", source |-> "MultipleStartTimes"]
    ELSE IF s = {}
    THEN [kind |-> "Err", source |-> "NoStartTimes"]
    ELSE [kind |-> "Ok",
          event |-> Event_new((CHOOSE x \in s : TRUE)[2],
                              {x[2] : x \in (ev.tags_added \ ev.tags_removed)})]

\* ------------------------------------------------------------------- Patch
\* `parents` of AddStart/AddTag is a set; of RemoveStart/RemoveTag an optional
\* set, read through parents() as the set it holds or as no element at all.
None == <<>>
Some(x) == <<x>>

AddStart_parents(i) == i.parents
RemoveStart_parents(i) == IF i.parents = None THEN {} ELSE i.parents[1]
AddTag_parents(i) == i.parents
RemoveTag_parents(i) == IF i.parents = None THEN {} ELSE i.parents[1]

\* Patch::parents(): every predecessor id the patch names.
Patch_parents(p) ==
    UNION {AddStart_parents(i) : i \in p.add_start}
    \cup {i.patch : i \in p.remove_start}
    \cup UNION {RemoveStart_parents(i) : i \in p.remove_start}
    \cup {i.patch : i \in p.remove_tag}
    \cup UNION {RemoveTag_parents(i) : i \in p.remove_tag}
    \cup UNION {AddTag_parents(i) : i \in p.add_tag}

\* The orders in which a HashSet may hand out its elements.
Orders(S) ==
    {q \in [1..Cardinality(S) -> S] : \A i, j \in DOMAIN q : i # j => q[i] # q[j]}

\* One traversal of the five instruction sets of a patch.
Iter(p) ==
    [add_start : Orders(p.add_start), remove_start : Orders(p.remove_start),
     add_tag : Orders(p.add_tag), remove_tag : Orders(p.remove_tag),
     create_event : Orders(p.create_event)]

\* --------------------------------------------------------- PatchedTimesheet
PatchedTimesheet_new == <<>>

Insert(m, k, v) == [x \in DOMAIN m \cup {k} |-> IF x = k THEN v ELSE m[x]]

RECURSIVE remove_parents_from_latest(_, _)
remove_parents_from_latest(ev, parents) ==
    IF parents = {} THEN ev
    ELSE LET parent == CHOOSE x \in parents : TRUE IN
         remove_parents_from_latest(remove_patch_from_latest(ev, parent),
                                    parents \ {parent})

\* Error values of the timesheet.
UnknownEvent(patch, event) == [type |-> "UnknownEvent", patch |-> patch, event |-> event]
DuplicateEventId(id) == [type |-> "DuplicateEventId", id |-> id]
FlattenEventError(source, event) ==
    [type |-> "FlattenEventError", source |-> source, event |-> event]
DuplicateEventTime(event_a, event_b) ==
    [type |-> "DuplicateEventTime", event_a |-> event_a, event_b |-> event_b]

Ok == [kind |-> "Ok"]
Err(errors) == [kind |-> "Err", errors |-> errors]
Panic(msg) == [kind |-> "Panic", msg |-> msg]

\* The UnknownEvent errors one verification loop pushes, in traversal order.
unknown_event_errors(evs, patch_ref, seq) ==
    LET bad == SelectSeq(seq, LAMBDA i : i.event \notin DOMAIN evs) IN
    [k \in 1..Len(bad) |-> UnknownEvent(patch_ref, bad[k].event)]

duplicate_event_errors(evs, seq) ==
    LET bad == SelectSeq(seq, LAMBDA i : i.event \in DOMAIN evs) IN
    [k \in 1..Len(bad) |-> DuplicateEventId(bad[k].event)]

\* verify_patch without the check of create_event against the tracked events.
verify_patch_ignoring_duplicates(evs, patch_ref, it) ==
    LET errors == unknown_event_errors(evs, patch_ref, it.add_start)
                  \o unknown_event_errors(evs, patch_ref, it.remove_start)
    IN  IF \E k \in DOMAIN it.add_tag : it.add_tag[k].event \notin DOMAIN evs
        THEN Panic("no event for add-tag")
        ELSE IF \E k \in DOMAIN it.remove_tag : it.remove_tag[k].event \notin DOMAIN evs
        THEN Panic("no event for remove-tag")
        ELSE IF errors # <<>> THEN Err(errors) ELSE Ok

\* verify_patch reporting a tag instruction on a missing event as UnknownEvent,
\* the way it reports the start instructions.
verify_patch_reporting_tags(evs, patch_ref, it) ==
    LET errors == unknown_event_errors(evs, patch_ref, it.add_start)
                  \o unknown_event_errors(evs, patch_ref, it.remove_start)
                  \o unknown_event_errors(evs, patch_ref, it.add_tag)
                  \o unknown_event_errors(evs, patch_ref, it.remove_tag)
                  \o duplicate_event_errors(evs, it.create_event)
    IN  IF errors # <<>> THEN Err(errors) ELSE Ok

\* verify_patch over the traversal `it` of the patch: Ok, Err(errors), or the
\* panic of an `expect` on a tag instruction whose event is missing.
verify_patch(evs, patch_ref, it) ==
    LET errors == unknown_event_errors(evs, patch_ref, it.add_start)
                  \o unknown_event_errors(evs, patch_ref, it.remove_start)
                  \o duplicate_event_errors(evs, it.create_event)
    IN  IF \E k \in DOMAIN it.add_tag : it.add_tag[k].event \notin DOMAIN evs
        THEN Panic("no event for add-tag")
        ELSE IF \E k \in DOMAIN it.remove_tag : it.remove_tag[k].event \notin DOMAIN evs
        THEN Panic("no event for remove-tag")
        ELSE IF errors # <<>> THEN Err(errors) ELSE Ok

\* The bodies of the five application loops. Each takes and returns
\* [events, panicked]: a failed `expect` or `assert!` stops the application.
\* The add_start loop body taking the parents out of the frontier of every
\* tracked event, not only of the event the instruction names.
apply_add_start_all_frontiers(st, patch_ref, i) ==
    IF st.panicked THEN st
    ELSE IF i.event \notin DOMAIN st.events THEN [st EXCEPT !.panicked = TRUE]
    ELSE [st EXCEPT !.events =
            [e \in DOMAIN st.events |->
                IF e = i.event
                THEN add_patch_to_latest(
                         remove_parents_from_latest(
                             add_start(st.events[e], patch_ref, i.time),
                             AddStart_parents(i)),
                         patch_ref)
                ELSE remove_parents_from_latest(st.events[e], AddStart_parents(i))]]

apply_add_start(st, patch_ref, i) ==
    IF st.panicked THEN st
    ELSE IF i.event \notin DOMAIN st.events THEN [st EXCEPT !.panicked = TRUE]
    ELSE [st EXCEPT !.events[i.event] =
            add_patch_to_latest(
                remove_parents_from_latest(add_start(@, patch_ref, i.time),
                                           AddStart_parents(i)),
                patch_ref)]

apply_remove_start(st, patch_ref, i) ==
    IF st.panicked THEN st
    ELSE IF i.event \notin DOMAIN st.events THEN [st EXCEPT !.panicked = TRUE]
    ELSE [st EXCEPT !.events[i.event] =
            add_patch_to_latest(
                remove_parents_from_latest(
                    remove_patch_from_latest(remove_start(@, i.patch, i.time), i.patch),
                    RemoveStart_parents(i)),
                patch_ref)]

apply_add_tag(st, patch_ref, i) ==
    IF st.panicked THEN st
    ELSE IF i.event \notin DOMAIN st.events THEN [st EXCEPT !.panicked = TRUE]
    ELSE [st EXCEPT !.events[i.event] =
            add_patch_to_latest(
                remove_parents_from_latest(add_tag(@, patch_ref, i.tag),
                                           AddTag_parents(i)),
                patch_ref)]

apply_remove_tag(st, patch_ref, i) ==
    IF st.panicked THEN st
    ELSE IF i.event \notin DOMAIN st.events THEN [st EXCEPT !.panicked = TRUE]
    ELSE [st EXCEPT !.events[i.event] =
            add_patch_to_latest(
                remove_parents_from_latest(
                    remove_patch_from_latest(remove_tag(@, i.patch, i.tag), i.patch),
                    RemoveTag_parents(i)),
                patch_ref)]

RECURSIVE add_tags(_, _, _, _)
add_tags(ev, patch_ref, tagseq, k) ==
    IF k > Len(tagseq) THEN ev
    ELSE add_tags(add_tag(ev, patch_ref, tagseq[k]), patch_ref, tagseq, k + 1)

\* The create_event loop body without the tags and frontier of the new event.
apply_create_event_start_only(st, patch_ref, i) ==
    IF st.panicked THEN st
    ELSE [events |-> Insert(st.events, i.event,
                            add_start(PatchedEvent_new, patch_ref, i.start)),
          panicked |-> i.event \in DOMAIN st.events]

\* events.insert replaces an entry that is already there, and the assert!
\* that follows then fails.
apply_create_event(st, patch_ref, i) ==
    IF st.panicked THEN st
    ELSE LET event == add_patch_to_latest(
                          add_tags(add_start(PatchedEvent_new, patch_ref, i.start),
                                   patch_ref, i.tags, 1),
                          patch_ref)
         IN  [events |-> Insert(st.events, i.event, event),
              panicked |-> i.event \in DOMAIN st.events]

RECURSIVE apply_loops(_, _, _, _, _)
apply_loops(st, patch_ref, it, loop, k) ==
    IF loop = 1 THEN
        IF k > Len(it.add_start) THEN apply_loops(st, patch_ref, it, 2, 1)
        ELSE apply_loops(apply_add_start(st, patch_ref, it.add_start[k]),
                         patch_ref, it, 1, k + 1)
    ELSE IF loop = 2 THEN
        IF k > Len(it.remove_start) THEN apply_loops(st, patch_ref, it, 3, 1)
        ELSE apply_loops(apply_remove_start(st, patch_ref, it.remove_start[k]),
                         patch_ref, it, 2, k + 1)
    ELSE IF loop = 3 THEN
        IF k > Len(it.add_tag) THEN apply_loops(st, patch_ref, it, 4, 1)
        ELSE apply_loops(apply_add_tag(st, patch_ref, it.add_tag[k]),
                         patch_ref, it, 3, k + 1)
    ELSE IF loop = 4 THEN
        IF k > Len(it.remove_tag) THEN apply_loops(st, patch_ref, it, 5, 1)
        ELSE apply_loops(apply_remove_tag(st, patch_ref, it.remove_tag[k]),
                         patch_ref, it, 4, k + 1)
    ELSE
        IF k > Len(it.create_event) THEN st
        ELSE apply_loops(apply_create_event(st, patch_ref, it.create_event[k]),
                         patch_ref, it, 5, k + 1)

\* apply_patch that applies while it verifies: the instructions that are
\* valid take effect even when the call returns the error list.
apply_patch_unverified(evs, patch_ref, it) ==
    LET v == verify_patch(evs, patch_ref, it)
        st == apply_loops([events |-> evs, panicked |-> FALSE], patch_ref, it, 1, 1)
    IN  IF v.kind = "Panic" THEN [events |-> evs, result |-> v]
        ELSE [events |-> st.events,
              result |-> IF v.kind # "Ok" THEN v
                         ELSE IF st.panicked THEN Panic("apply") ELSE Ok]

\* apply_patch over the traversal `it`: the timesheet afterwards and what the
\* call returned (or the panic that ended it).
apply_patch(evs, patch_ref, it) ==
    LET v == verify_patch(evs, patch_ref, it) IN
    IF v.kind # "Ok" THEN [events |-> evs, result |-> v]
    ELSE LET st == apply_loops([events |-> evs, panicked |-> FALSE], patch_ref, it, 1, 1)
         IN  [events |-> st.events,
              result |-> IF st.panicked THEN Panic("apply") ELSE Ok]

\* Timesheet::new and Timesheet::event_at_time: the flattened view records which
\* event starts at each time; registering a start returns the event that held it.
Timesheet_new(evs) == [event_starts |-> <<>>]

event_at_time(ts, start, event_ref) ==
    [prev |-> IF start \in DOMAIN ts.event_starts THEN Some(ts.event_starts[start]) ELSE None,
     timesheet |-> [ts EXCEPT !.event_starts = Insert(@, start, event_ref)]]

Min(S) == CHOOSE x \in S : \A y \in S : x <= y

\* The flatten loop with event_datetimes_to_refs keeping its first entry.
RECURSIVE flatten_loop_keep_first(_, _, _)
flatten_loop_keep_first(evs, todo, acc) ==
    IF todo = {} THEN acc
    ELSE LET event_ref == Min(todo)
             f == PatchedEvent_flatten(evs[event_ref])
         IN  IF f.kind = "Ok" THEN
                 LET r == event_at_time(acc.timesheet, f.event.start, event_ref) IN
                 flatten_loop_keep_first(evs, todo \ {event_ref},
                     [timesheet |-> r.timesheet,
                      errors |-> IF r.prev # None
                                 THEN Append(acc.errors,
                                        DuplicateEventTime(
                                            acc.event_datetimes_to_refs[f.event.start],
                                            event_ref))
                                 ELSE acc.errors,
                      event_datetimes_to_refs |->
                          IF f.event.start \in DOMAIN acc.event_datetimes_to_refs
                          THEN acc.event_datetimes_to_refs
                          ELSE Insert(acc.event_datetimes_to_refs, f.event.start,
                                      event_ref)])
             ELSE flatten_loop_keep_first(evs, todo \ {event_ref},
                     [acc EXCEPT !.errors =
                         Append(@, FlattenEventError(f.source, event_ref))])

\* The flatten loop returning at the first event that fails to flatten.
RECURSIVE flatten_loop_first_error(_, _, _)
flatten_loop_first_error(evs, todo, acc) ==
    IF todo = {} THEN acc
    ELSE LET event_ref == Min(todo)
             f == PatchedEvent_flatten(evs[event_ref])
         IN  IF f.kind = "Ok" THEN
                 LET r == event_at_time(acc.timesheet, f.event.start, event_ref) IN
                 flatten_loop_first_error(evs, todo \ {event_ref},
                     [timesheet |-> r.timesheet,
                      errors |-> IF r.prev # None
                                 THEN Append(acc.errors,
                                        DuplicateEventTime(
                                            acc.event_datetimes_to_refs[f.event.start],
                                            event_ref))
                                 ELSE acc.errors,
                      event_datetimes_to_refs |->
                          Insert(acc.event_datetimes_to_refs, f.event.start, event_ref)])
             ELSE [acc EXCEPT !.errors =
                         Append(@, FlattenEventError(f.source, event_ref))]

RECURSIVE flatten_loop(_, _, _)
flatten_loop(evs, todo, acc) ==
    IF todo = {} THEN acc
    ELSE LET event_ref == Min(todo)
             f == PatchedEvent_flatten(evs[event_ref])
         IN  IF f.kind = "Ok" THEN
                 LET r == event_at_time(acc.timesheet, f.event.start, event_ref) IN
                 flatten_loop(evs, todo \ {event_ref},
                     [timesheet |-> r.timesheet,
                      errors |-> IF r.prev # None
                                 THEN Append(acc.errors,
                                        DuplicateEventTime(
                                            acc.event_datetimes_to_refs[f.event.start],
                                            event_ref))
                                 ELSE acc.errors,
                      event_datetimes_to_refs |->
                          Insert(acc.event_datetimes_to_refs, f.event.start, event_ref)])
             ELSE flatten_loop(evs, todo \ {event_ref},
                     [acc EXCEPT !.errors =
                         Append(@, FlattenEventError(f.source, event_ref))])

PatchedTimesheet_flatten(evs) ==
    LET acc == flatten_loop(evs, DOMAIN evs,
                   [timesheet |-> Timesheet_new(evs), errors |-> <<>>,
                    event_datetimes_to_refs |-> <<>>])
    IN  IF acc.errors # <<>> THEN Err(acc.errors)
        ELSE [kind |-> "Ok", timesheet |-> acc.timesheet]

\* ---------------------------------------------------------- patch universe
ParentSets == {S \in SUBSET PatchRefs : Cardinality(S) <= MaxParents}
OptParentSets == {None} \cup {Some(S) : S \in ParentSets \ {{}}}

AddStarts == [op : {"add_start"}, parents : ParentSets, event : EventRefs, time : Times]
RemoveStarts ==
    [op : {"remove_start"}, parents : OptParentSets, patch : PatchRefs,
     event : EventRefs, time : Times]
AddTags == [op : {"add_tag"}, parents : ParentSets, event : EventRefs, tag : Tags]
RemoveTags ==
    [op : {"remove_tag"}, parents : OptParentSets, patch : PatchRefs,
     event : EventRefs, tag : Tags]
TagVecs == {<<>>} \cup {<<t>> : t \in Tags}
CreateEvents == [op : {"create_event"}, event : EventRefs, start : Times, tags : TagVecs]

Instructions == AddStarts \cup RemoveStarts \cup AddTags \cup RemoveTags \cup CreateEvents

RECURSIVE SmallSubsets(_, _)
SmallSubsets(S, k) ==
    IF k = 0 THEN {{}}
    ELSE LET prev == SmallSubsets(S, k - 1) IN
         prev \cup {T \cup {x} : T \in prev, x \in S}

InstructionSets == SmallSubsets(Instructions, MaxInstr)

\* The patches a single builder call makes (Patch::add_start, ...), and the
\* patch with no instruction.
SingleInstructionSets == SmallSubsets(Instructions, 1)

\* The only traversal of a patch that carries at most one instruction.
TheIter(p) == CHOOSE it \in Iter(p) : TRUE

\* Patch::with_id(id) followed by insert_* of the instructions in S.
Patch_with(id, S) ==
    [id |-> id,
     add_start |-> {i \in S : i.op = "add_start"},
     remove_start |-> {i \in S : i.op = "remove_start"},
     add_tag |-> {i \in S : i.op = "add_tag"},
     remove_tag |-> {i \in S : i.op = "remove_tag"},
     create_event |-> {i \in S : i.op = "create_event"}]

Patch_instructions(p) ==
    p.add_start \cup p.remove_start \cup p.add_tag \cup p.remove_tag \cup p.create_event

\* ------------------------------------------------------------ specification
VARIABLES
    events,     \* PatchedTimesheet.events: EventRef -> PatchedEvent
    delivered,  \* how many patches the store has handed over
    before,     \* the timesheet as the last apply_patch call found it
    patch,      \* the patch of the last apply_patch call
    result,     \* what that call returned: Ok, Err(errors) or a panic
    store,      \* the patches authored so far, store[k] carrying id k
    resent,     \* the index in store of the patch the last call redelivered, or 0
    other,      \* the events of a second replica of the timesheet
    other_order,    \* the indices of the store patches the second replica applied, in order
    other_result,   \* what the second replica's last apply_patch call returned
    accepted,   \* whether every application on the second replica or in an exchange returned Ok
    causal,     \* whether the second replica applied each patch after the patches it names
    pe,         \* a PatchedEvent driven through its own methods
    calls       \* the mutator calls made on pe, in order

vars == <<events, delivered, before, patch, result, store, resent,
          other, other_order, other_result, accepted, causal, pe, calls>>
timesheet_vars == <<events, delivered, before, patch, result>>
replica_vars == <<store, resent, other, other_order, other_result, accepted, causal>>
event_vars == <<pe, calls>>

NoPatch == Patch_with(0, {})
NoResult == [kind |-> "None"]

Init ==
    /\ events = PatchedTimesheet_new
    /\ delivered = 0
    /\ before = PatchedTimesheet_new
    /\ patch = NoPatch
    /\ result = NoResult
    /\ store = <<>>
    /\ resent = 0
    /\ other = PatchedTimesheet_new
    /\ other_order = <<>>
    /\ other_result = NoResult
    /\ accepted = TRUE
    /\ causal = TRUE
    /\ pe = PatchedEvent_new
    /\ calls = <<>>

\* Patch ids are unique: the k-th patch the store hands over carries id k.
\* Start-up replays the stored patches. A patch the timesheet rejects is
\* skipped; a panic ends the program, so no replay continues after one.
Replay ==
    /\ result = NoResult
    /\ delivered < MaxReplay
    /\ delivered < NumPatchRefs - 1
    /\ \E S \in InstructionSets :
         LET p == Patch_with(delivered + 1, S) IN
         \E it \in Iter(p) :
            LET r == apply_patch(events, p.id, it) IN
            /\ r.result.kind # "Panic"
            /\ events' = r.events
            /\ before' = r.events
            /\ delivered' = delivered + 1
            /\ UNCHANGED <<patch, result>>
    /\ UNCHANGED <<replica_vars, event_vars>>

\* One more patch is applied, and the call is recorded.
ApplyPatch ==
    /\ result = NoResult
    /\ delivered < NumPatchRefs
    /\ \E S \in InstructionSets :
         LET p == Patch_with(delivered + 1, S) IN
         \E it \in Iter(p) :
            LET r == apply_patch(events, p.id, it) IN
            /\ events' = r.events
            /\ before' = events
            /\ delivered' = delivered + 1
            /\ patch' = p
            /\ result' = r.result
    /\ UNCHANGED <<replica_vars, event_vars>>

Next == Replay \/ ApplyPatch

Spec == Init /\ [][Next]_vars

\* ------------------------------------------- specification of PatchedEvent
\* The public mutators of one PatchedEvent, called directly as the unit tests
\* of event.rs call them.
Call(op, p, v) == [op |-> op, patch |-> p, value |-> v]

CallAddStart ==
    /\ Len(calls) < MaxCalls
    /\ \E p \in PatchRefs, t \in Times :
          /\ pe' = add_start(pe, p, t)
          /\ calls' = Append(calls, Call("add_start", p, t))
    /\ UNCHANGED <<timesheet_vars, replica_vars>>

CallRemoveStart ==
    /\ Len(calls) < MaxCalls
    /\ \E p \in PatchRefs, t \in Times :
          /\ pe' = remove_start(pe, p, t)
          /\ calls' = Append(calls, Call("remove_start", p, t))
    /\ UNCHANGED <<timesheet_vars, replica_vars>>

CallAddTag ==
    /\ Len(calls) < MaxCalls
    /\ \E p \in PatchRefs, g \in Tags :
          /\ pe' = add_tag(pe, p, g)
          /\ calls' = Append(calls, Call("add_tag", p, g))
    /\ UNCHANGED <<timesheet_vars, replica_vars>>

CallRemoveTag ==
    /\ Len(calls) < MaxCalls
    /\ \E p \in PatchRefs, g \in Tags :
          /\ pe' = remove_tag(pe, p, g)
          /\ calls' = Append(calls, Call("remove_tag", p, g))
    /\ UNCHANGED <<timesheet_vars, replica_vars>>

CallAddPatchToLatest ==
    /\ Len(calls) < MaxCalls
    /\ \E p \in PatchRefs :
          /\ pe' = add_patch_to_latest(pe, p)
          /\ calls' = Append(calls, Call("add_patch_to_latest", p, 0))
    /\ UNCHANGED <<timesheet_vars, replica_vars>>

CallRemovePatchFromLatest ==
    /\ Len(calls) < MaxCalls
    /\ \E p \in PatchRefs :
          /\ pe' = remove_patch_from_latest(pe, p)
          /\ calls' = Append(calls, Call("remove_patch_from_latest", p, 0))
    /\ UNCHANGED <<timesheet_vars, replica_vars>>

NextEvent ==
    \/ CallAddStart
    \/ CallRemoveStart
    \/ CallAddTag
    \/ CallRemoveTag
    \/ CallAddPatchToLatest
    \/ CallRemovePatchFromLatest

SpecEvent == Init /\ [][NextEvent]_vars

\* ------------------------------------------------ specification of replicas
Range(q) == {q[k] : k \in DOMAIN q}

\* A replica authors its next patch against its own timesheet: the patch is
\* accepted there and names only patches authored before it.
Author ==
    /\ Len(store) < NumPatchRefs
    /\ \E S \in SingleInstructionSets :
         LET p == Patch_with(Len(store) + 1, S)
             r == apply_patch(events, p.id, TheIter(p))
         IN  /\ r.result.kind = "Ok"
             /\ Patch_parents(p) \subseteq 1..Len(store)
             /\ events' = r.events
             /\ before' = events
             /\ patch' = p
             /\ result' = r.result
             /\ delivered' = delivered + 1
             /\ store' = Append(store, p)
             /\ resent' = 0
    /\ UNCHANGED <<other, other_order, other_result, accepted, causal, event_vars>>

\* The store hands a patch over once more (at-least-once delivery).
Redeliver ==
    /\ result.kind # "Panic"
    /\ \E k \in DOMAIN store :
         LET r == apply_patch(events, store[k].id, TheIter(store[k])) IN
         /\ events' = r.events
         /\ before' = events
         /\ patch' = store[k]
         /\ result' = r.result
         /\ resent' = k
    /\ UNCHANGED <<delivered, store, other, other_order, other_result, accepted,
                   causal, event_vars>>

\* The second replica applies a patch of the store it has not applied yet, in
\* an order of its own. A panic ends that replica.
Receive ==
    /\ other_result.kind # "Panic"
    /\ \E k \in DOMAIN store \ Range(other_order) :
         LET r == apply_patch(other, store[k].id, TheIter(store[k])) IN
         /\ other' = r.events
         /\ other_result' = r.result
         /\ other_order' = Append(other_order, k)
         /\ accepted' = (accepted /\ r.result.kind = "Ok")
         /\ causal' = (causal /\ Patch_parents(store[k]) \subseteq Range(other_order))
    /\ UNCHANGED <<timesheet_vars, store, resent, event_vars>>

\* Two replicas that share a timesheet each apply a patch of their own, A here
\* and B there, and then the patch of the other. A replica that panics stops.
\* The two patches take the last two patch ids.
Exchange ==
    /\ other_order = <<>>
    /\ Len(store) + 2 = NumPatchRefs
    /\ \E SA, SB \in SingleInstructionSets :
         LET A == Patch_with(Len(store) + 1, SA)
             B == Patch_with(Len(store) + 2, SB)
             a == apply_patch(events, A.id, TheIter(A))
             ab == IF a.result.kind = "Panic" THEN a
                   ELSE apply_patch(a.events, B.id, TheIter(B))
             b == apply_patch(events, B.id, TheIter(B))
             ba == IF b.result.kind = "Panic" THEN b
                   ELSE apply_patch(b.events, A.id, TheIter(A))
         IN  /\ events' = ab.events
             /\ other' = ba.events
             /\ before' = events
             /\ patch' = B
             /\ result' = ab.result
             /\ other_result' = ba.result
             /\ store' = store \o <<A, B>>
             /\ other_order' = <<Len(store) + 2, Len(store) + 1>>
             /\ delivered' = delivered + 2
             /\ accepted' = (/\ a.result.kind = "Ok" /\ ab.result.kind = "Ok"
                             /\ b.result.kind = "Ok" /\ ba.result.kind = "Ok")
    /\ UNCHANGED <<resent, causal, event_vars>>

NextRedeliver == Author \/ Redeliver
SpecRedeliver == Init /\ [][NextRedeliver]_vars

NextConverge == Author \/ Receive
SpecConverge == Init /\ [][NextConverge]_vars

NextCommute == Author \/ Exchange
SpecCommute == Init /\ [][NextCommute]_vars

\* ------------------------------------------------------------------ claims
Count(seq, x) == Cardinality({k \in DOMAIN seq : seq[k] = x})

\* The instructions of p that verification faults in the timesheet evs.
UnknownStarts(evs, p) == {i \in p.add_start \cup p.remove_start : i.event \notin DOMAIN evs}
DuplicateCreates(evs, p) == {i \in p.create_event : i.event \in DOMAIN evs}

\* C1: whenever apply_patch returns an error list, the timesheet is exactly as
\* the call found it: the same events, each with the same four sets and the
\* same latest_patches.
C1_AllOrNothing == result.kind = "Err" => events = before

\* An error list was returned for a patch that also carries an add_start the
\* timesheet could have taken: its event exists and the pair is new to it.
C1_Witness ==
    /\ result.kind = "Err"
    /\ \E i \in patch.add_start :
          /\ i.event \in DOMAIN before
          /\ <<patch.id, i.time>> \notin before[i.event].starts_added

\* C2: the error list holds exactly one UnknownEvent{patch, event} per
\* add_start/remove_start instruction on a missing event and exactly one
\* DuplicateEventId{id} per create_event instruction on an existing event, and
\* apply_patch returns Ok exactly when the patch has no such instruction.
C2_BatchAndOkExactly ==
    result # NoResult =>
        LET us == UnknownStarts(before, patch)
            dc == DuplicateCreates(before, patch)
        IN  /\ result.kind = "Ok" <=> (us = {} /\ dc = {})
            /\ result.kind = "Err" =>
                 /\ Len(result.errors) = Cardinality(us) + Cardinality(dc)
                 /\ \A e \in EventRefs :
                      /\ Count(result.errors, UnknownEvent(patch.id, e))
                           = Cardinality({i \in us : i.event = e})
                      /\ Count(result.errors, DuplicateEventId(e))
                           = Cardinality({i \in dc : i.event = e})

\* C6 as claimed: after an accepted remove_start (remove_tag) for event e and
\* time t (tag g), no visible start of e carries t (no visible tag carries g),
\* whichever patch added it, and the flattened Event does not show it.
C6_RemovalByValue ==
    result.kind = "Ok" =>
        /\ \A i \in patch.remove_start :
              /\ \A x \in starts(events[i.event]) : x[2] # i.time
              /\ LET f == PatchedEvent_flatten(events[i.event]) IN
                 f.kind = "Ok" => f.event.start # i.time
        /\ \A i \in patch.remove_tag :
              /\ \A x \in tags(events[i.event]) : x[2] # i.tag
              /\ LET f == PatchedEvent_flatten(events[i.event]) IN
                 f.kind = "Ok" => i.tag \notin f.event.tags

\* C6 amended: an accepted remove_start for (patch q, time t) leaves the pair
\* (q, t) out of starts(); t shows in the flattened Event only as the start a
\* different patch contributed. The same for remove_tag and tags().
C6_RemovalByPair ==
    result.kind = "Ok" =>
        /\ \A i \in patch.remove_start :
              /\ <<i.patch, i.time>> \notin starts(events[i.event])
              /\ LET f == PatchedEvent_flatten(events[i.event]) IN
                 (f.kind = "Ok" /\ f.event.start = i.time) =>
                    \E q \in PatchRefs \ {i.patch} :
                        starts(events[i.event]) = {<<q, i.time>>}
        /\ \A i \in patch.remove_tag :
              /\ <<i.patch, i.tag>> \notin tags(events[i.event])
              /\ LET f == PatchedEvent_flatten(events[i.event]) IN
                 (f.kind = "Ok" /\ i.tag \in f.event.tags) =>
                    \E q \in PatchRefs \ {i.patch} :
                        <<q, i.tag>> \in tags(events[i.event])

\* A visible start (q, t) was removed by an accepted patch while another
\* patch's pair with the same time t stays visible.
C6_Witness ==
    /\ result.kind = "Ok"
    /\ \E i \in patch.remove_start :
          /\ <<i.patch, i.time>> \in starts(before[i.event])
          /\ \E x \in starts(events[i.event]) : x[2] = i.time

\* The events of evs that flatten to an Event, and the start each resolves to.
Resolved(evs) == {e \in DOMAIN evs : PatchedEvent_flatten(evs[e]).kind = "Ok"}
ResolvedStart(evs, e) == PatchedEvent_flatten(evs[e]).event.start

\* C8: flatten returns Ok exactly when every tracked event has exactly one
\* visible start and no two distinct tracked events resolve to the same start;
\* otherwise it returns Err with a non-empty error list.
C8_FlattenOkIff ==
    LET f == PatchedTimesheet_flatten(events) IN
    /\ f.kind = "Ok" <=>
          /\ \A e \in DOMAIN events : Cardinality(starts(events[e])) = 1
          /\ \A e1, e2 \in DOMAIN events :
                (/\ e1 # e2
                 /\ Cardinality(starts(events[e1])) = 1
                 /\ Cardinality(starts(events[e2])) = 1)
                => {x[2] : x \in starts(events[e1])} # {x[2] : x \in starts(events[e2])}
    /\ f.kind # "Ok" => (f.kind = "Err" /\ f.errors # <<>>)

\* Every tracked event has exactly one visible start, one of them after a
\* removal, and still flatten fails: two events share the start.
C8_Witness ==
    /\ Cardinality(DOMAIN events) >= 2
    /\ \A e \in DOMAIN events : Cardinality(starts(events[e])) = 1
    /\ \E e \in DOMAIN events : events[e].starts_removed # {}
    /\ PatchedTimesheet_flatten(events).kind = "Err"

\* C9 as claimed: an event whose resolved start equals that of an event
\* visited earlier gets a DuplicateEventTime whose event_a is the first-seen
\* event with that start, also when three or more events share the start.
C9_EventAIsFirstSeen ==
    LET f == PatchedTimesheet_flatten(events) IN
    \A e \in Resolved(events) :
        LET earlier == {d \in Resolved(events) :
                          d < e /\ ResolvedStart(events, d) = ResolvedStart(events, e)}
        IN  earlier # {} =>
               /\ f.kind = "Err"
               /\ Count(f.errors, DuplicateEventTime(Min(earlier), e)) = 1

\* C9 amended: event_a is the event visited last before it with that start
\* (the first-seen one when only two events share the start), event_b the
\* event being visited; one such error per colliding visit and no other
\* DuplicateEventTime.
C9_EventAIsLastSeen ==
    LET f == PatchedTimesheet_flatten(events)
        errs == IF f.kind = "Err" THEN f.errors ELSE <<>>
        Earlier(e) == {d \in Resolved(events) :
                          d < e /\ ResolvedStart(events, d) = ResolvedStart(events, e)}
        Last(S) == CHOOSE x \in S : \A y \in S : y <= x
    IN  /\ \A e \in Resolved(events) :
              Earlier(e) # {} =>
                 Count(errs, DuplicateEventTime(Last(Earlier(e)), e)) = 1
        /\ \A k \in DOMAIN errs :
              errs[k].type = "DuplicateEventTime" =>
                 /\ errs[k].event_b \in Resolved(events)
                 /\ Earlier(errs[k].event_b) # {}
                 /\ errs[k].event_a = Last(Earlier(errs[k].event_b))

\* Three tracked events resolve to one and the same start.
C9_Witness ==
    \E e1, e2, e3 \in Resolved(events) :
        /\ e1 < e2 /\ e2 < e3
        /\ ResolvedStart(events, e1) = ResolvedStart(events, e2)
        /\ ResolvedStart(events, e2) = ResolvedStart(events, e3)

\* C7: PatchedEvent::flatten is a trichotomy on starts(): MultipleStartTimes
\* exactly when it has more than one element, NoStartTimes exactly when it is
\* empty, and otherwise the Event of the single visible start with exactly the
\* visible tags.
C7_FlattenTrichotomy ==
    LET f == PatchedEvent_flatten(pe)
        s == starts(pe)
    IN  /\ (f.kind = "Err" /\ f.source = "MultipleStartTimes") <=> Cardinality(s) > 1
        /\ (f.kind = "Err" /\ f.source = "NoStartTimes") <=> s = {}
        /\ Cardinality(s) = 1 =>
              /\ f.kind = "Ok"
              /\ \A x \in s : f.event.start = x[2]
              /\ f.event.tags = {x[2] : x \in tags(pe)}

\* The sole start of the event was removed and not replaced: flatten reports
\* NoStartTimes.
C7_Witness ==
    /\ Cardinality(pe.starts_added) = 1
    /\ starts(pe) = {}
    /\ PatchedEvent_flatten(pe).kind = "Err"
    /\ PatchedEvent_flatten(pe).source = "NoStartTimes"

\* The start-affecting calls made on pe so far.
StartCalls == SelectSeq(calls, LAMBDA c : c.op \in {"add_start", "remove_start"})

\* The three per-event effects of the tombstone scenario.
TombstoneEffects(P0, T0, P1, T1) ==
    {Call("add_start", P0, T0), Call("remove_start", P0, T0), Call("add_start", P1, T1)}

\* C10: when the start-affecting calls on the event are add_start(P0, T0),
\* remove_start(P0, T0) and add_start(P1, T1), in whatever order they were
\* made, flatten yields start T1.
C10_TombstoneAnyOrder ==
    \A P0, P1 \in PatchRefs : \A T0, T1 \in Times :
        (/\ P0 # P1
         /\ Len(StartCalls) = 3
         /\ {StartCalls[k] : k \in 1..3} = TombstoneEffects(P0, T0, P1, T1))
        => /\ PatchedEvent_flatten(pe).kind = "Ok"
           /\ PatchedEvent_flatten(pe).event.start = T1

\* The three effects were applied with the removal first, before the start it
\* removes was added.
C10_Witness ==
    \E P0, P1 \in PatchRefs : \E T0, T1 \in Times :
        /\ P0 # P1 /\ T0 # T1
        /\ StartCalls = <<Call("remove_start", P0, T0), Call("add_start", P1, T1),
                          Call("add_start", P0, T0)>>
        /\ PatchedEvent_flatten(pe).kind = "Ok"

\* ---- redelivery, exchange and replay by a second replica
\* What flatten() hands to its caller: the errors, or the timesheet read
\* through the PatchedTimesheet it borrows, each start with its event and the
\* visible tags of that event.
Flattened(evs) ==
    LET f == PatchedTimesheet_flatten(evs) IN
    IF f.kind # "Ok" THEN f
    ELSE [kind |-> "Ok",
          segments |-> [t \in DOMAIN f.timesheet.event_starts |->
                           [event |-> f.timesheet.event_starts[t],
                            tags |-> {x[2] : x \in tags(evs[f.timesheet.event_starts[t]])}]]]

Names(p) == {i.event : i \in Patch_instructions(p)}
Creates(p) == {i.event : i \in p.create_event}

\* C3: once a patch has been applied, applying it again, at once or after
\* other patches, leaves the result of flatten() as it was with the patch
\* applied once.
C3_RedeliverKeepsFlatten ==
    resent # 0 => Flattened(events) = Flattened(before)

\* C3 witness: patch 2 is redelivered after a later patch withdrew what it
\* added; the call is accepted and changes the frontier of the event.
C3_Witness ==
    /\ resent # 0
    /\ resent < Len(store)
    /\ result.kind = "Ok"
    /\ events # before
    /\ \E i \in store[Len(store)].remove_start \cup store[Len(store)].remove_tag :
           i.patch = store[resent].id

\* The last two patches of the store, exchanged between the two replicas.
Exchanged == other_order # <<>>
PatchA == store[Len(store) - 1]
PatchB == store[Len(store)]
NoIdReference == PatchB.id \notin Patch_parents(PatchA) /\ PatchA.id \notin Patch_parents(PatchB)
NoEventDependence ==
    Names(PatchA) \cap Creates(PatchB) = {} /\ Names(PatchB) \cap Creates(PatchA) = {}

\* C4 as stated: two patches of which neither references the id of the other
\* give the same flatten() result in both orders, a rejected application
\* counting as a no-op.
C4_CommuteByIdOnly ==
    (Exchanged /\ NoIdReference /\ result.kind # "Panic" /\ other_result.kind # "Panic")
        => Flattened(events) = Flattened(other)

\* C4 amended: two patches of which neither references the id of the other and
\* neither names an event the other creates give the same flatten() result in
\* both orders, a rejected application counting as a no-op; a patch that makes
\* apply_patch panic in one order makes it panic in the other.
C4_CommuteIndependent ==
    (Exchanged /\ NoIdReference /\ NoEventDependence)
        => /\ (result.kind = "Panic") <=> (other_result.kind = "Panic")
           /\ result.kind # "Panic"
                => Flattened(events) = Flattened(other)

\* C4 witness: A adds a start to an event and B a tag to the same event, both
\* accepted in both orders.
C4_Witness ==
    /\ Exchanged /\ NoIdReference /\ NoEventDependence
    /\ accepted
    /\ PatchA.add_start # {}
    /\ PatchB.add_tag # {}
    /\ Names(PatchA) = Names(PatchB)
    /\ Flattened(events) # Flattened(before)

\* The second replica has applied every patch of the store.
Replayed == store # <<>> /\ Range(other_order) = DOMAIN store

\* C5 as stated: two orders of applying the same patches that both apply each
\* patch after the patches whose id it references end in the same state.
C5_ConvergeCausal == (Replayed /\ causal) => other = events

\* C5 amended: two orders of applying the same patches that both apply each
\* patch after the patches whose id it references, and in which every
\* application returns Ok, end in the same state (flatten() reads nothing but
\* that state).
C5_ConvergeAccepted ==
    (Replayed /\ causal /\ accepted)
        => other = events

\* C5 witness: the second replica applied three patches in another order than
\* the first, every one accepted and after the patches it names, and the last
\* two change an event that the first created.
C5_Witness ==
    /\ Replayed /\ causal /\ accepted
    /\ Len(store) = NumPatchRefs
    /\ \E k \in 1..(Len(other_order) - 1) : other_order[k] > other_order[k + 1]
    /\ \A k \in 2..Len(store) :
           store[k].create_event = {} /\ Patch_instructions(store[k]) # {}

\* ---- the two-phase sets of one PatchedEvent
\* The (patch, value) pairs that the calls of one mutator made so far carried.
Pairs(op) == {<<calls[k].patch, calls[k].value>> : k \in {j \in DOMAIN calls : calls[j].op = op}}

\* C11: after any sequence of add_start/remove_start/add_tag/remove_tag calls,
\* starts() is the set of (patch, time) pairs added minus the pairs removed and
\* tags() the (patch, tag) pairs added minus the pairs removed; removing one of
\* several added pairs leaves exactly the others visible.
C11_VisibleIsDifference ==
    /\ pe.starts_added = Pairs("add_start")
    /\ pe.starts_removed = Pairs("remove_start")
    /\ pe.tags_added = Pairs("add_tag")
    /\ pe.tags_removed = Pairs("remove_tag")
    /\ starts(pe) = Pairs("add_start") \ Pairs("remove_start")
    /\ tags(pe) = Pairs("add_tag") \ Pairs("remove_tag")

\* C11 witness: two pairs with the same time were added by different patches
\* and one of them removed; the other is the only visible start.
C11_Witness ==
    \E P0, P1 \in PatchRefs : \E T0 \in Times :
        /\ P0 # P1
        /\ Pairs("add_start") = {<<P0, T0>>, <<P1, T0>>}
        /\ Pairs("remove_start") = {<<P0, T0>>}
        /\ calls[Len(calls)].op = "remove_start"
        /\ starts(pe) = {<<P1, T0>>}

\* ---- application after verification
\* What verify_patch returns for a patch; the traversal decides only the order
\* of the errors in the list.
Verified(evs, p) == \A it \in Iter(p) : verify_patch(evs, p.id, it).kind = "Ok"

\* C12: whenever verify_patch returns Ok for the patch, apply_patch runs to
\* completion and returns Ok, with no assertion or `expect` failing.
C12_VerifiedAppliesFully ==
    (result # NoResult /\ Verified(before, patch)) => result.kind = "Ok"

\* ---- append-only state
\* Every event of evs1 is an event of evs2, with each of its four sets a
\* subset of what it is in evs2.
Grows(evs1, evs2) ==
    \A e \in DOMAIN evs1 :
        /\ e \in DOMAIN evs2
        /\ evs1[e].starts_added \subseteq evs2[e].starts_added
        /\ evs1[e].starts_removed \subseteq evs2[e].starts_removed
        /\ evs1[e].tags_added \subseteq evs2[e].tags_added
        /\ evs1[e].tags_removed \subseteq evs2[e].tags_removed

\* C13: no apply_patch call, whatever it returns, drops an event or takes a
\* pair out of an event's starts_added, starts_removed, tags_added or
\* tags_removed; hence every event of a state is in every later state, with
\* supersets of its sets.
C13_AppendOnly == [][Grows(events, events')]_vars

\* C13 witness: an accepted patch has put a removal on an event that was there
\* and created another event.
C13_Witness ==
    /\ result.kind = "Ok"
    /\ DOMAIN before # {}
    /\ DOMAIN before # DOMAIN events
    /\ \E e \in DOMAIN before : before[e].starts_removed # events[e].starts_removed

\* C14: applying an applied patch again leaves the whole PatchedTimesheet,
\* every event's added and removed sets and its latest_patches, as it was.
C14_RedeliverKeepsState == resent # 0 => events = before

\* ---- the errors of flatten
\* The source PatchedEvent::flatten reports for a visible start count other
\* than 1.
SourceOf(ev) == IF starts(ev) = {} THEN "NoStartTimes" ELSE "MultipleStartTimes"

\* C15: when PatchedTimesheet::flatten returns Err, its list holds exactly one
\* FlattenEventError for each tracked event whose visible start count is not
\* 1, with NoStartTimes for no start and MultipleStartTimes for two or more,
\* and no FlattenEventError for any other event, however many events fail.
C15_EveryEventDefect ==
    LET f == PatchedTimesheet_flatten(events) IN
    f.kind = "Err" =>
        /\ \A e \in DOMAIN events :
              Cardinality({k \in DOMAIN f.errors :
                              /\ f.errors[k].type = "FlattenEventError"
                              /\ f.errors[k].event = e})
                = IF Cardinality(starts(events[e])) = 1 THEN 0 ELSE 1
        /\ \A k \in DOMAIN f.errors :
              f.errors[k].type = "FlattenEventError" =>
                 /\ f.errors[k].event \in DOMAIN events
                 /\ f.errors[k].source = SourceOf(events[f.errors[k].event])

\* C15 witness: one tracked event has no visible start and another has two;
\* flatten reports both.
C15_Witness ==
    LET f == PatchedTimesheet_flatten(events) IN
    /\ f.kind = "Err"
    /\ \E e1, e2 \in DOMAIN events :
          /\ starts(events[e1]) = {}
          /\ Cardinality(starts(events[e2])) = 2
          /\ \E j, k \in DOMAIN f.errors :
                /\ f.errors[j] = FlattenEventError("NoStartTimes", e1)
                /\ f.errors[k] = FlattenEventError("MultipleStartTimes", e2)

\* ---- the causal frontier
\* The instructions of a patch on one event, and the patch ids an instruction
\* names as direct predecessor: `parents` for an addition, `patch` and
\* `parents` for a removal, none for create_event.
OnEvent(p, e) == {i \in Patch_instructions(p) : i.event = e}
Predecessors(i) ==
    IF i.op = "add_start" THEN AddStart_parents(i)
    ELSE IF i.op = "remove_start" THEN {i.patch} \cup RemoveStart_parents(i)
    ELSE IF i.op = "add_tag" THEN AddTag_parents(i)
    ELSE IF i.op = "remove_tag" THEN {i.patch} \cup RemoveTag_parents(i)
    ELSE {}

\* The ids of the applied patches that carry an instruction on e and that no
\* other applied patch's instruction on e names as predecessor.
Frontier(applied, e) ==
    {p.id : p \in {q \in applied :
                     /\ OnEvent(q, e) # {}
                     /\ \A r \in applied \ {q} :
                           \A i \in OnEvent(r, e) : q.id \notin Predecessors(i)}}

\* The patches the second replica has applied.
OtherApplied == {store[k] : k \in Range(other_order)}

\* C16: after successful apply_patch calls, each patch applied once and after
\* every patch it references, latest_patches of each event is exactly the
\* frontier of the applied patches; on the authoring replica, and on the
\* replica that applied them in an order of its own.
C16_FrontierExact ==
    /\ \A e \in DOMAIN events : events[e].latest_patches = Frontier(Range(store), e)
    /\ (causal /\ accepted) =>
          \A e \in DOMAIN other : other[e].latest_patches = Frontier(OtherApplied, e)

\* C16 witness: the creating patch of an event was superseded by two patches
\* that do not name each other, and the second replica applied them in the
\* other order; the frontier of the event is these two patches.
C16_Witness ==
    /\ Replayed /\ causal /\ accepted
    /\ other_order = <<1, 3, 2>>
    /\ \E e \in DOMAIN other :
          /\ other[e].latest_patches = {2, 3}
          /\ Frontier(OtherApplied, e) = {2, 3}

\* The add_start, remove_start, add_tag and remove_tag instructions of a patch.
Edits(p) == p.add_start \cup p.remove_start \cup p.add_tag \cup p.remove_tag

\* C17: right after an accepted apply_patch(p), every event that an add_start,
\* remove_start, add_tag or remove_tag instruction of p targets has p.id in
\* its latest_patches and none of the other ids that p's instructions on that
\* event name as direct predecessor.
C17_FrontierStep ==
    result.kind = "Ok" =>
        \A i \in Edits(patch) :
            /\ patch.id \in events[i.event].latest_patches
            /\ \A j \in Edits(patch) :
                  j.event = i.event =>
                     \A q \in Predecessors(j) \ {patch.id} :
                         q \notin events[i.event].latest_patches

\* C17 witness: an accepted patch carries two instructions on one event, one
\* of them naming a patch that was in the frontier of the event.
C17_Witness ==
    /\ result.kind = "Ok"
    /\ \E i, j \in Edits(patch) :
          /\ i # j
          /\ i.event = j.event
          /\ Predecessors(i) \cap before[i.event].latest_patches # {}
          /\ events[i.event].latest_patches = {patch.id}

\* ---- application out of causal order
\* Event e was created on the second replica before the n-th patch it applied.
CreatedBefore(e, n) == \E c \in 1..(n - 1) : e \in Creates(store[other_order[c]])

\* Patch q edits event e and names the id of patch p there as predecessor.
Supersedes(q, p, e) == \E i \in OnEvent(q, e) \cap Edits(q) : p.id \in Predecessors(i)

\* C18: when the patch the second replica applied last, P, edits an event e
\* that existed before, and a patch Q that names P as predecessor on e was
\* applied earlier, after e was created, then every call returned Ok and P's
\* id is in latest_patches of e.
C18_OutOfOrderAccepted ==
    LET n == Len(other_order) IN
    \A a \in 1..(n - 1) : \A e \in EventRefs :
        LET P == store[other_order[n]]
            Q == store[other_order[a]]
        IN  (/\ OnEvent(P, e) \cap Edits(P) # {}
             /\ Supersedes(Q, P, e)
             /\ CreatedBefore(e, a))
            => /\ accepted
               /\ other_result.kind = "Ok"
               /\ P.id \in other[e].latest_patches

\* C18 witness: patch 3 names patch 2 on the event patch 1 created, and the
\* second replica applied 1, 3, 2; every call was accepted, and patch 2 is in
\* the frontier there while the authoring replica has it superseded.
C18_Witness ==
    /\ other_order = <<1, 3, 2>>
    /\ accepted
    /\ ~causal
    /\ \E e \in DOMAIN other :
          /\ Supersedes(store[3], store[2], e)
          /\ OnEvent(store[2], e) \cap Edits(store[2]) # {}
          /\ 2 \in other[e].latest_patches
          /\ 2 \notin events[e].latest_patches

\* ---- the order of the instructions of one patch
\* The loop body apply_patch runs for an instruction, chosen by its kind.
apply_instruction(st, patch_ref, i) ==
    IF i.op = "add_start" THEN apply_add_start(st, patch_ref, i)
    ELSE IF i.op = "remove_start" THEN apply_remove_start(st, patch_ref, i)
    ELSE IF i.op = "add_tag" THEN apply_add_tag(st, patch_ref, i)
    ELSE IF i.op = "remove_tag" THEN apply_remove_tag(st, patch_ref, i)
    ELSE apply_create_event(st, patch_ref, i)

\* The loop bodies run over the instructions in the order q, whatever set each
\* instruction belongs to.
RECURSIVE apply_sequence(_, _, _, _)
apply_sequence(st, patch_ref, q, k) ==
    IF k > Len(q) THEN st
    ELSE apply_sequence(apply_instruction(st, patch_ref, q[k]), patch_ref, q, k + 1)

\* C19: for a patch that passes verification, the timesheet after apply_patch
\* is the same for every order in which the instructions of the patch are
\* processed, within each of the five sets and across them.
C19_AnyInstructionOrder ==
    (result # NoResult /\ Verified(before, patch)) =>
        /\ \A it \in Iter(patch) : apply_patch(before, patch.id, it).events = events
        /\ \A q \in Orders(Patch_instructions(patch)) :
              apply_sequence([events |-> before, panicked |-> FALSE],
                             patch.id, q, 1).events = events

\* The same for the patches on which apply_patch returns Ok.
AcceptedAnyInstructionOrder ==
    result.kind = "Ok" =>
        /\ \A it \in Iter(patch) : apply_patch(before, patch.id, it).events = events
        /\ \A q \in Orders(Patch_instructions(patch)) :
              apply_sequence([events |-> before, panicked |-> FALSE],
                             patch.id, q, 1).events = events

\* ---- create_event
\* C20: after an accepted patch p, every create_event{event, start, tags} of p
\* has made `event`, which was not tracked, a tracked event with starts_added
\* = {(p.id, start)}, tags_added = {(p.id, t) : t in tags}, starts_removed and
\* tags_removed empty, and latest_patches = {p.id}.
C20_CreatedEventState ==
    result.kind = "Ok" =>
        \A i \in patch.create_event :
            /\ i.event \notin DOMAIN before
            /\ i.event \in DOMAIN events
            /\ events[i.event] =
                 [starts_added |-> {<<patch.id, i.start>>},
                  starts_removed |-> {},
                  tags_added |-> {<<patch.id, i.tags[k]>> : k \in DOMAIN i.tags},
                  tags_removed |-> {},
                  latest_patches |-> {patch.id}]

\* C20 witness: an accepted patch created an event with a tag and edited an
\* event that was there.
C20_Witness ==
    /\ result.kind = "Ok"
    /\ Edits(patch) # {}
    /\ \E i \in patch.create_event :
          /\ i.tags # <<>>
          /\ events[i.event].tags_added # {}

\* ---- tombstones
\* C21: once remove_start (remove_tag) has been called for the pair (p, v),
\* the pair is in starts() (tags()) in no state from then on, also when the
\* add of the same pair comes after the removal.
C21_TombstonePermanent ==
    /\ \A x \in Pairs("remove_start") : x \notin starts(pe)
    /\ \A x \in Pairs("remove_tag") : x \notin tags(pe)

\* C21 witness: a pair was removed before it was added, for a start and for a
\* tag; both pairs are in the added sets and neither is visible.
C21_Witness ==
    \E j, k, m, n \in DOMAIN calls :
        /\ j < k /\ m < n
        /\ calls[j].op = "remove_start" /\ calls[k].op = "add_start"
        /\ calls[j].patch = calls[k].patch /\ calls[j].value = calls[k].value
        /\ calls[m].op = "remove_tag" /\ calls[n].op = "add_tag"
        /\ calls[m].patch = calls[n].patch /\ calls[m].value = calls[n].value
        /\ <<calls[k].patch, calls[k].value>> \in pe.starts_added
        /\ <<calls[n].patch, calls[n].value>> \in pe.tags_added
        /\ starts(pe) = {} /\ tags(pe) = {}

\* ---- the defensive assertions
\* The add_tag and remove_tag instructions of a patch that name an event the
\* timesheet does not track.
UnknownTags(evs, p) == {i \in p.add_tag \cup p.remove_tag : i.event \notin DOMAIN evs}

\* The panic of one of the two `expect` calls of verify_patch.
VerifyPanic(r) ==
    r.kind = "Panic" /\ r.msg \in {"no event for add-tag", "no event for remove-tag"}

\* C22: apply_patch ends on an `expect` of verify_patch exactly when an add_tag
\* or remove_tag instruction of the patch names an untracked event; it does so
\* before any mutation and returns no error list, whatever else the patch
\* holds. Any other panic of apply_patch comes from a patch whose edits all
\* name tracked events, so no `expect` of the application loops fails.
C22_TagOnMissingEventPanics ==
    result # NoResult =>
        /\ VerifyPanic(result) <=> UnknownTags(before, patch) # {}
        /\ VerifyPanic(result) => events = before
        /\ (result.kind = "Panic" /\ ~VerifyPanic(result)) =>
              /\ \A i \in Edits(patch) : i.event \in DOMAIN before
              /\ \E i, j \in patch.create_event : i # j /\ i.event = j.event

\* C22 witness: a patch with an add_start and a remove_tag that both name an
\* untracked event panics in verify_patch and reports nothing.
C22_Witness ==
    /\ VerifyPanic(result)
    /\ result.msg = "no event for remove-tag"
    /\ UnknownStarts(before, patch) # {}
    /\ patch.remove_tag # {}
    /\ events = before

\* ---- the frame of apply_patch
\* C23: an accepted apply_patch(p) leaves every tracked event that no
\* instruction of p names as it was, its four sets and its latest_patches,
\* also when p names predecessor ids that are in the frontier of that event.
C23_UnnamedEventsUnchanged ==
    result.kind = "Ok" =>
        \A e \in DOMAIN before \ Names(patch) :
            e \in DOMAIN events /\ events[e] = before[e]

\* C23 witness: an accepted patch edits one event and names as predecessor a
\* patch that is in the frontier of another event, which it does not name;
\* that patch is still in the other event's frontier.
C23_Witness ==
    /\ result.kind = "Ok"
    /\ \E i \in Edits(patch) : \E e \in DOMAIN before \ Names(patch) :
          /\ Predecessors(i) \cap before[e].latest_patches # {}
          /\ Predecessors(i) \cap before[i.event].latest_patches # {}
          /\ events[e].latest_patches = before[e].latest_patches
          /\ events[i.event].latest_patches = {patch.id}

\* ---- start conflicts
\* Patch p contributes the start time T to event e: by an add_start, or by the
\* create_event of e.
Contributes(p, e, T) ==
    \/ \E i \in p.add_start : i.event = e /\ i.time = T
    \/ \E i \in p.create_event : i.event = e /\ i.start = T

\* C24: when two different applied patches each contribute the same time T to
\* event e and neither pair is removed, flatten of e fails with
\* MultipleStartTimes, one distinct time being visible or more; and e flattens
\* to an Event exactly when one (patch, time) pair is visible.
C24_ConflictsCountPairs ==
    \A e \in DOMAIN events :
        LET f == PatchedEvent_flatten(events[e]) IN
        /\ \A j, k \in DOMAIN store : \A T \in Times :
              (/\ j # k
               /\ Contributes(store[j], e, T)
               /\ Contributes(store[k], e, T)
               /\ <<store[j].id, T>> \notin events[e].starts_removed
               /\ <<store[k].id, T>> \notin events[e].starts_removed)
              => f.kind = "Err" /\ f.source = "MultipleStartTimes"
        /\ f.kind = "Ok" <=> Cardinality(starts(events[e])) = 1

\* C24 witness: the patch that created the event and a later add_start gave it
\* the same time; two pairs and one distinct time are visible, and flatten
\* fails with MultipleStartTimes.
C24_Witness ==
    \E e \in DOMAIN events :
        /\ Cardinality(starts(events[e])) = 2
        /\ Cardinality({x[2] : x \in starts(events[e])}) = 1
        /\ \E j, k \in DOMAIN store : \E T \in Times :
              /\ j # k
              /\ store[j].create_event # {}
              /\ Contributes(store[j], e, T)
              /\ store[k].add_start # {}
              /\ Contributes(store[k], e, T)
        /\ PatchedEvent_flatten(events[e]).kind = "Err"
        /\ PatchedEvent_flatten(events[e]).source = "MultipleStartTimes"

====
